---- MODULE Spec2Model ----
(***************************************************************************)
(* Model of parse-jasome (src/main.py): main() checks that the XML file    *)
(* exists, parse_jasome_xml() loads it with xmltodict, walks the tree with *)
(* extract_method_metrics() and computes the averages, display_results()   *)
(* prints the report, and main()'s catch-all handler prints the error.     *)
(*                                                                         *)
(* Text (element text, attribute values) is a tuple of one-character       *)
(* strings; mapping keys are strings.  Numbers are exact rationals: a      *)
(* parsed value is a natural number, a mean is a pair [n, d], and a        *)
(* printed number is the integer count of hundredths that ":.2f" shows.    *)
(***************************************************************************)
EXTENDS Integers, Sequences, FiniteSets, TLC

\* ------------------------------------------------------------------------
\* Bounds of the model
\* ------------------------------------------------------------------------

\* Largest number of sibling Method elements under one parent.
MaxMethods == 2

\* Deepest nesting of a Method element inside another Method element.
MaxNest == 1

\* ------------------------------------------------------------------------
\* The parsed tree: what xmltodict.parse returns
\* ------------------------------------------------------------------------

\* None: an element with no attribute, no child and no text.
NullV == [t |-> "null", s |-> <<>>, kv |-> <<>>, items |-> <<>>]

\* str: an attribute value, or an element that holds only text.
TextV(chars) == [t |-> "text", s |-> chars, kv |-> <<>>, items |-> <<>>]

\* dict: an ordered sequence of <<key, value>> pairs with distinct keys.
MapV(pairs) == [t |-> "map", s |-> <<>>, kv |-> pairs, items |-> <<>>]

\* list: repeated sibling elements.
ListV(vals) == [t |-> "list", s |-> <<>>, kv |-> <<>>, items |-> vals]

\* An XML element of the input document.
El(tag, attrs, kids, text) ==
    [tag |-> tag, attrs |-> attrs, kids |-> kids, text |-> text]

\* The distinct tags of a sequence of elements, in order of first appearance.
RECURSIVE TagOrder(_)
TagOrder(kids) ==
    IF kids = <<>> THEN <<>>
    ELSE LET front == TagOrder(SubSeq(kids, 1, Len(kids) - 1))
             g == kids[Len(kids)].tag
         IN IF \E i \in 1..Len(front) : front[i] = g
            THEN front ELSE Append(front, g)

\* xmltodict's value of one element: None, str or dict; attributes become
\* "@"-prefixed keys, same-named children collapse to one key whose value is
\* the child's value (one occurrence) or a list (several), text that comes
\* with attributes or children is kept under "#text".
RECURSIVE XmlValue(_)
XmlValue(e) ==
    IF e.attrs = <<>> /\ e.kids = <<>>
    THEN IF e.text = <<>> THEN NullV ELSE TextV(e.text)
    ELSE LET attrPairs == [i \in 1..Len(e.attrs) |->
                             <<"@" \o e.attrs[i][1], TextV(e.attrs[i][2])>>]
             tags == TagOrder(e.kids)
             Same(g) == SelectSeq(e.kids, LAMBDA k : k.tag = g)
             Group(g) == LET same == Same(g)
                         IN IF Len(same) = 1 THEN XmlValue(same[1])
                            ELSE ListV([j \in 1..Len(same) |-> XmlValue(same[j])])
             kidPairs == [i \in 1..Len(tags) |-> <<tags[i], Group(tags[i])>>]
             textPairs == IF e.text = <<>> THEN <<>>
                          ELSE << <<"#text", TextV(e.text)>> >>
         IN MapV(attrPairs \o kidPairs \o textPairs)

\* xmltodict.parse of a well-formed document: {root tag: value of the root}.
XmlToDict(root) == MapV(<< <<root.tag, XmlValue(root)>> >>)

\* ------------------------------------------------------------------------
\* Python's operations on the tree
\* ------------------------------------------------------------------------

\* The characters of the keys the walk tests for (a str operand of "in").
KeyChars(k) ==
    CASE k = "Metrics" -> <<"M", "e", "t", "r", "i", "c", "s">>
      [] k = "Metric" -> <<"M", "e", "t", "r", "i", "c">>
      [] k = "Method" -> <<"M", "e", "t", "h", "o", "d">>

\* key in dict
HasKey(node, k) == \E i \in 1..Len(node.kv) : node.kv[i][1] = k

\* dict[key], for a key the dict holds
Get(node, k) == node.kv[CHOOSE i \in 1..Len(node.kv) : node.kv[i][1] = k][2]

\* sub in text, for two str values: a substring test
IsSubstring(sub, chars) ==
    \E i \in 0..(Len(chars) - Len(sub)) :
        \A j \in 1..Len(sub) : chars[i + j] = sub[j]

\* Python's `k in c` for a str k: membership of the key in a dict, substring
\* in a str, equality with an item in a list, TypeError on None.
InTest(k, c) ==
    CASE c.t = "map" -> IF HasKey(c, k) THEN "True" ELSE "False"
      [] c.t = "text" -> IF IsSubstring(KeyChars(k), c.s) THEN "True" ELSE "False"
      [] c.t = "list" -> IF \E i \in 1..Len(c.items) : c.items[i] = TextV(KeyChars(k))
                         THEN "True" ELSE "False"
      [] c.t = "null" -> "TypeError"

\* `if not isinstance(x, list): x = [x]` (lines 29-30 and 37-38)
AsList_dropSingle(v) == IF v.t = "list" THEN v.items ELSE <<>>
AsList(v) == IF v.t = "list" THEN v.items ELSE <<v>>

\* dict.get(key, default) of a metric entry's attribute
GetOr(metric, k, default) == IF HasKey(metric, k) THEN Get(metric, k).s ELSE default

\* The decimal digits and their values.
DigitVal == [c \in {"0", "1", "2", "3", "4", "5", "6", "7", "8", "9"} |->
               CASE c = "0" -> 0 [] c = "1" -> 1 [] c = "2" -> 2 [] c = "3" -> 3
                 [] c = "4" -> 4 [] c = "5" -> 5 [] c = "6" -> 6 [] c = "7" -> 7
                 [] c = "8" -> 8 [] c = "9" -> 9]

RECURSIVE DigitsValue(_)
DigitsValue(chars) ==
    IF chars = <<>> THEN 0
    ELSE 10 * DigitsValue(SubSeq(chars, 1, Len(chars) - 1)) + DigitVal[chars[Len(chars)]]

\* float(text), for the texts of the model: a non-empty string of decimal
\* digits is its value, every other text of the model raises ValueError.
ParseFloat(chars) ==
    IF chars # <<>> /\ \A i \in 1..Len(chars) : chars[i] \in DOMAIN DigitVal
    THEN [ok |-> TRUE, v |-> DigitsValue(chars)]
    ELSE [ok |-> FALSE, v |-> 0]

\* ------------------------------------------------------------------------
\* parse_jasome_xml: the metrics storage and the walk
\* ------------------------------------------------------------------------

MetricKeys == <<"mccabe_cyclomatic_complexity", "system_complexity",
                "data_complexity", "total_lines_of_code">>

MetricKeySet == {MetricKeys[i] : i \in 1..Len(MetricKeys)}

\* metrics = {'mccabe_cyclomatic_complexity': [], ...}
EmptyMetrics == [k \in MetricKeySet |-> <<>>]

VG == <<"V", "G">>
Ci == <<"C", "i">>
Di == <<"D", "i">>
TLOC == <<"T", "L", "O", "C">>

\* The sequence a metric name is dispatched to ("" when it is none of the four).
SeqOfName(metric_name) ==
    CASE metric_name = VG -> "mccabe_cyclomatic_complexity"
      [] metric_name = Ci -> "system_complexity"
      [] metric_name = Di -> "data_complexity"
      [] metric_name = TLOC -> "total_lines_of_code"
      [] OTHER -> ""

\* The state of the walk: the sequences so far and the exception raised
\* ("none" while none was).
Raise(st, e) == [st EXCEPT !.err = e]

\* One metric entry (lines 41-59), parsing the value before the dispatch.
ProcessMetric_parseFirst(metric, st) ==
    IF metric.t # "map" THEN Raise(st, "AttributeError")
    ELSE LET metric_name == GetOr(metric, "@name", <<>>)
             metric_value == GetOr(metric, "@value", <<"0">>)
             key == SeqOfName(metric_name)
             f == ParseFloat(metric_value)
         IN IF ~f.ok THEN Raise(st, "ValueError")
            ELSE IF key = "" THEN st
            ELSE [st EXCEPT !.m[key] = Append(@, f.v)]

\* One metric entry (lines 41-59): .get on the entry, dispatch on the name,
\* float() of the value only in a recognized branch.
ProcessMetric(metric, st) ==
    IF metric.t # "map" THEN Raise(st, "AttributeError")
    ELSE LET metric_name == GetOr(metric, "@name", <<>>)
             metric_value == GetOr(metric, "@value", <<"0">>)
             key == SeqOfName(metric_name)
         IN IF key = "" THEN st
            ELSE LET f == ParseFloat(metric_value)
                 IN IF f.ok THEN [st EXCEPT !.m[key] = Append(@, f.v)]
                    ELSE Raise(st, "ValueError")

\* for metric in method_metrics (line 40); an exception ends the loop.
RECURSIVE ProcessMetrics(_, _)
ProcessMetrics(method_metrics, st) ==
    IF method_metrics = <<>> \/ st.err # "none" THEN st
    ELSE ProcessMetrics(Tail(method_metrics), ProcessMetric(Head(method_metrics), st))

\* One method entry (lines 34-59).  Subscripting a str or a list with a str
\* raises TypeError.
ProcessMethod(method, st) ==
    LET hasMetrics == InTest("Metrics", method)
    IN IF hasMetrics = "TypeError" THEN Raise(st, "TypeError")
       ELSE IF hasMetrics = "False" THEN st
       ELSE IF method.t # "map" THEN Raise(st, "TypeError")
       ELSE LET mm == Get(method, "Metrics")
                hasMetric == InTest("Metric", mm)
            IN IF hasMetric = "TypeError" THEN Raise(st, "TypeError")
               ELSE IF hasMetric = "False" THEN st
               ELSE IF mm.t # "map" THEN Raise(st, "TypeError")
               ELSE ProcessMetrics(AsList(Get(mm, "Metric")), st)

\* for method in methods (line 32); an exception ends the loop.
RECURSIVE ProcessMethods(_, _)
ProcessMethods(methods, st) ==
    IF methods = <<>> \/ st.err # "none" THEN st
    ELSE ProcessMethods(Tail(methods), ProcessMethod(Head(methods), st))

\* The method entries of a mapping node (lines 26-30), also taking a node
\* that holds a Metrics key for a method.
MethodsOf_anyMetrics(node) ==
    (IF HasKey(node, "Method") THEN AsList(Get(node, "Method")) ELSE <<>>)
    \o (IF HasKey(node, "Metrics") THEN <<node>> ELSE <<>>)

\* The method entries of a mapping node (lines 26-30): none without a
\* Method key, else its value normalized to a list.
MethodsOf(node) ==
    IF HasKey(node, "Method") THEN AsList(Get(node, "Method")) ELSE <<>>

\* The values the walk recurses into, skipping the Method value.
ChildValues_skipMethod(node) ==
    LET picked == SelectSeq(node.kv,
                            LAMBDA p : p[2].t \in {"map", "list"} /\ p[1] # "Method")
    IN [i \in 1..Len(picked) |-> picked[i][2]]

\* The values the walk recurses into (lines 62-64): every value of the
\* mapping that is a dict or a list, in the mapping's order.
ChildValues(node) ==
    LET picked == SelectSeq(node.kv, LAMBDA p : p[2].t \in {"map", "list"})
    IN [i \in 1..Len(picked) |-> picked[i][2]]

RECURSIVE extract_method_metrics(_, _)
RECURSIVE ExtractEach(_, _)

\* extract_method_metrics on each node of a sequence, in order; an exception
\* ends the loop.
ExtractEach(nodes, st) ==
    IF nodes = <<>> \/ st.err # "none" THEN st
    ELSE ExtractEach(Tail(nodes), extract_method_metrics(Head(nodes), st))

\* extract_method_metrics (lines 23-68).
extract_method_metrics(node, st) ==
    IF st.err # "none" THEN st
    ELSE IF node.t = "map"
         THEN ExtractEach(ChildValues(node), ProcessMethods(MethodsOf(node), st))
    ELSE IF node.t = "list" THEN ExtractEach(node.items, st)
    ELSE st

\* The walk from the root (lines 14-19, 71).
Extraction(data) ==
    extract_method_metrics(data, [m |-> EmptyMetrics, err |-> "none"])

\* ------------------------------------------------------------------------
\* The averages (lines 74-100)
\* ------------------------------------------------------------------------

RECURSIVE SumSeq(_)
SumSeq(xs) == IF xs = <<>> THEN 0 ELSE Head(xs) + SumSeq(Tail(xs))

\* The literal 0 an average starts as, as a rational.
ZeroAvg == [n |-> 0, d |-> 1]

InitialResults(m) ==
    [total_methods |-> Len(m["mccabe_cyclomatic_complexity"]),
     avg |-> [k \in MetricKeySet |-> ZeroAvg]]

\* Lines 74-98: the averages stay 0 unless the VG sequence is non-empty;
\* then each sum is divided by its own length, and dividing by the length
\* of an empty sequence raises ZeroDivisionError.
ComputeResults(m) ==
    LET initial == InitialResults(m)
    IN IF initial.total_methods > 0
       THEN IF \E k \in MetricKeySet : m[k] = <<>>
            THEN [err |-> "ZeroDivisionError", results |-> initial]
            ELSE [err |-> "none",
                  results |-> [initial EXCEPT !.avg =
                      [k \in MetricKeySet |-> [n |-> SumSeq(m[k]), d |-> Len(m[k])]]]]
       ELSE [err |-> "none", results |-> initial]

\* ------------------------------------------------------------------------
\* The report (lines 102-129)
\* ------------------------------------------------------------------------

\* f"{n/d:.2f}" as a count of hundredths, ties to even.  A tie needs a
\* denominator divisible by 8, which takes 8 samples or more.
Fmt2(n, d) ==
    LET q == (100 * n) \div d
        r == (100 * n) % d
    IN IF 2 * r > d THEN q + 1
       ELSE IF 2 * r = d THEN q + (q % 2)
       ELSE q

RECURSIVE MinSeq(_)
MinSeq(xs) ==
    IF Len(xs) = 1 THEN xs[1]
    ELSE LET rest == MinSeq(Tail(xs)) IN IF Head(xs) <= rest THEN Head(xs) ELSE rest

RECURSIVE MaxSeq(_)
MaxSeq(xs) ==
    IF Len(xs) = 1 THEN xs[1]
    ELSE LET rest == MaxSeq(Tail(xs)) IN IF Head(xs) >= rest THEN Head(xs) ELSE rest

RECURSIVE Insert(_, _)
Insert(x, sorted) ==
    IF sorted = <<>> THEN <<x>>
    ELSE IF x <= Head(sorted) THEN <<x>> \o sorted
    ELSE <<Head(sorted)>> \o Insert(x, Tail(sorted))

RECURSIVE Sorted(_)
Sorted(xs) == IF xs = <<>> THEN <<>> ELSE Insert(Head(xs), Sorted(Tail(xs)))

\* statistics.median of a non-empty sequence, as a rational.
Median(xs) ==
    LET srt == Sorted(xs)
        n == Len(xs)
    IN IF n % 2 = 1 THEN [n |-> srt[(n + 1) \div 2], d |-> 1]
       ELSE [n |-> srt[n \div 2] + srt[n \div 2 + 1], d |-> 2]

RECURSIVE SumSquares(_)
SumSquares(xs) ==
    IF xs = <<>> THEN 0 ELSE Head(xs) * Head(xs) + SumSquares(Tail(xs))

\* The largest r in lo..hi with (2r - 1)^2 * q <= 40000 * p, which is
\* 100 * sqrt(p / q) rounded to the nearest integer.
RECURSIVE RoundedRoot(_, _, _, _)
RoundedRoot(lo, hi, p, q) ==
    IF lo = hi THEN lo
    ELSE LET mid == (lo + hi + 1) \div 2
         IN IF (2 * mid - 1) * (2 * mid - 1) * q <= 40000 * p
            THEN RoundedRoot(mid, hi, p, q)
            ELSE RoundedRoot(lo, mid - 1, p, q)

\* f"{statistics.stdev(xs):.2f}" as a count of hundredths: the sample
\* standard deviation (N-1 denominator); StatisticsError under 2 values.
Stdev(xs) ==
    LET n == Len(xs)
    IN IF n < 2 THEN [err |-> "StatisticsError", v |-> 0]
       ELSE LET p == n * SumSquares(xs) - SumSeq(xs) * SumSeq(xs)
                q == n * (n - 1)
            IN [err |-> "none",
                v |-> RoundedRoot(0, 100 * (MaxSeq(xs) - MinSeq(xs)), p, q)]

\* One printed line.
Line(k, m, v) == [k |-> k, m |-> m, v |-> v]

\* Lines 103-114: the banner, the total and the four averages.
HeaderLines(res) ==
    << Line("rule", "", 0), Line("title", "", 0), Line("rule", "", 0),
       Line("total", "", res.total_methods),
       Line("rule", "", 0), Line("averages_title", "", 0), Line("rule", "", 0) >>
    \o [i \in 1..Len(MetricKeys) |->
          Line("avg", MetricKeys[i], Fmt2(res.avg[MetricKeys[i]].n, res.avg[MetricKeys[i]].d))]
    \o << Line("rule", "", 0) >>

\* The StdDev line, computing the deviation for any non-empty sequence.
StdDevLine_fromOne(name, metric_values) ==
    IF Len(metric_values) > 0
    THEN LET sd == Stdev(metric_values)
         IN [err |-> sd.err, line |-> Line("stddev", name, sd.v)]
    ELSE [err |-> "none", line |-> Line("stddev_na", name, 0)]

\* Lines 128-129: the deviation when there are 2 values or more, else N/A.
StdDevLine(name, metric_values) ==
    IF Len(metric_values) > 1
    THEN LET sd == Stdev(metric_values)
         IN [err |-> sd.err, line |-> Line("stddev", name, sd.v)]
    ELSE [err |-> "none", line |-> Line("stddev_na", name, 0)]

\* Lines 122-129: the block of one metric with values; the lines printed
\* before an exception stay printed.
BlockLines(name, metric_values) ==
    LET med == Median(metric_values)
        sd == StdDevLine(name, metric_values)
        first == << Line("label", name, 0),
                    Line("min", name, Fmt2(MinSeq(metric_values), 1)),
                    Line("max", name, Fmt2(MaxSeq(metric_values), 1)),
                    Line("median", name, Fmt2(med.n, med.d)) >>
    IN [err |-> sd.err,
        lines |-> IF sd.err = "none" THEN Append(first, sd.line) ELSE first]

\* ------------------------------------------------------------------------
\* The input documents of the model
\* ------------------------------------------------------------------------

XYZ == <<"X", "Y", "Z">>
NotANumber == <<"a", "b", "c">>

\* <Metric name=... value=.../>
MetricEl(name, value) ==
    El("Metric", << <<"name", name>>, <<"value", value>> >>, <<>>, <<>>)

\* <Metrics> ... </Metrics>
MetricsEl(entries) == El("Metrics", <<>>, entries, <<>>)

\* <Method name="m"> ... </Method>
MethodEl(kids) == El("Method", << <<"name", <<"m">>>> >>, kids, <<>>)

\* <Class name="c"> ... </Class>
ClassEl(kids) == El("Class", << <<"name", <<"c">>>> >>, kids, <<>>)

\* <Project> ... </Project>
ProjectEl(kids) == El("Project", <<>>, kids, <<>>)

\* The sequences over a set with 1 to n elements.
RECURSIVE SeqsUpTo(_, _)
SeqsUpTo(S, n) ==
    IF n = 0 THEN {}
    ELSE LET shorter == SeqsUpTo(S, n - 1)
         IN {<<x>> : x \in S} \cup shorter \cup {Append(q, x) : q \in shorter, x \in S}

RecognizedNames == <<VG, Ci, Di, TLOC>>

\* Which recognized metrics a method carries, and with which values.
PresenceSets == {{VG}, {TLOC}, {Ci, Di, TLOC}, {VG, Ci, Di, TLOC}}

ValueProfiles ==
    { [n \in {VG, Ci, Di, TLOC} |->
         CASE n = VG -> <<"3">> [] n = Ci -> <<"5">> [] n = Di -> <<"2">>
           [] n = TLOC -> <<"4", "0">>],
      [n \in {VG, Ci, Di, TLOC} |-> <<"2">>],
      [n \in {VG, Ci, Di, TLOC} |-> <<"4">>] }

Kit(present, profile) ==
    LET names == SelectSeq(RecognizedNames, LAMBDA n : n \in present)
    IN [i \in 1..Len(names) |-> MetricEl(names[i], profile[names[i]])]

\* Methods that differ in the recognized metrics they carry.
KitMethods ==
    {MethodEl(<<MetricsEl(Kit(ps, vp))>>) : ps \in PresenceSets, vp \in ValueProfiles}

\* Project > Class > 1..MaxMethods methods with metrics.
StatsDocs == {ProjectEl(<<ClassEl(ms)>>) : ms \in SeqsUpTo(KitMethods, MaxMethods)}

\* Metric entries of every shape: recognized, unrecognized, not numeric,
\* missing an attribute, without any attribute (None).
ShapeEntries ==
    { MetricEl(VG, <<"2">>), MetricEl(XYZ, NotANumber), MetricEl(VG, NotANumber),
      El("Metric", << <<"name", VG>> >>, <<>>, <<>>),
      El("Metric", << <<"value", <<"2">>>> >>, <<>>, <<>>),
      El("Metric", <<>>, <<>>, <<>>) }

EntryPairs ==
    { <<MetricEl(VG, <<"2">>), MetricEl(XYZ, NotANumber)>>,
      <<MetricEl(XYZ, NotANumber), MetricEl(VG, <<"2">>)>>,
      <<MetricEl(XYZ, NotANumber), MetricEl(XYZ, <<"2">>)>> }

FullKit == Kit({VG, Ci, Di, TLOC}, [n \in {VG, Ci, Di, TLOC} |-> <<"2">>])

\* The children of a Method that concern its metrics: none, an empty
\* <Metrics/>, a Metrics with an attribute only, with one or two entries,
\* with all four recognized metrics.
MetricsKids ==
    { <<>>, <<MetricsEl(<<>>)>>,
      <<El("Metrics", << <<"count", <<"0">>>> >>, <<>>, <<>>)>>,
      <<MetricsEl(FullKit)>> }
    \cup {<<MetricsEl(<<e>>)>> : e \in ShapeEntries}
    \cup {<<MetricsEl(pair)>> : pair \in EntryPairs}

\* Methods of every parsed shape: None, text, text holding "Metrics", dict.
ShapeMethods ==
    { El("Method", <<>>, <<>>, <<>>),
      El("Method", <<>>, <<>>, <<"f", "o", "o">>),
      El("Method", <<>>, <<>>, <<"n", "o", "M", "e", "t", "r", "i", "c", "s">>) }
    \cup {MethodEl(mk) : mk \in MetricsKids}

\* The methods nested in other methods.
InnerMethods ==
    { MethodEl(<<MetricsEl(FullKit)>>), MethodEl(<<MetricsEl(<<MetricEl(VG, <<"4">>)>>)>>),
      MethodEl(<<>>) }

\* Methods holding methods, up to d levels deep.
RECURSIVE NestedMethods(_)
NestedMethods(d) ==
    IF d = 0 THEN InnerMethods
    ELSE {MethodEl(mk \o <<inner>>) :
            mk \in {<<>>, <<MetricsEl(FullKit)>>}, inner \in NestedMethods(d - 1)}

AllNested == UNION {NestedMethods(d) : d \in 1..MaxNest}

\* Metrics of a class, outside any method.
ClassMetrics == MetricsEl(<<MetricEl(VG, <<"5">>), MetricEl(TLOC, <<"4", "0">>)>>)

\* The sequences of up to MaxMethods methods in which one method, the first
\* or the last, is of the set S and the others are plain.
Around(S) ==
    LET others == {<<>>} \cup SeqsUpTo(InnerMethods, MaxMethods - 1)
    IN {<<m>> \o ms : m \in S, ms \in others} \cup {ms \o <<m>> : m \in S, ms \in others}

\* Project > Class > methods of every shape, and methods holding methods
\* beside the metrics of the class.
ShapeDocs ==
    {ProjectEl(<<ClassEl(ms)>>) : ms \in Around(ShapeMethods)}
    \cup {ProjectEl(<<ClassEl(<<ClassMetrics>> \o ms)>>) : ms \in Around(AllNested)}

\* Methods at several depths and in several classes.
SpreadDocs ==
    {ProjectEl(<<m1, El("Package", <<>>, <<ClassEl(<<m2>>), ClassEl(<<ClassMetrics, m3>>)>>, <<>>)>>) :
        m1 \in InnerMethods, m2 \in InnerMethods, m3 \in InnerMethods}

\* Documents without any Method element.
NoMethodDocs ==
    { ProjectEl(<<>>),
      El("Project", <<>>, <<>>, <<"t">>),
      El("Project", << <<"name", <<"p">>>> >>, <<>>, <<>>),
      ProjectEl(<<ClassEl(<<>>)>>),
      ProjectEl(<<ClassEl(<<ClassMetrics>>)>>),
      ProjectEl(<<ClassMetrics, ClassEl(<<ClassMetrics>>), ClassEl(<<ClassMetrics>>)>>),
      ProjectEl(<<El("Package", <<>>, <<ClassEl(<<ClassMetrics, El("Field", <<>>, <<>>, <<>>)>>)>>, <<>>)>>) }

Documents == StatsDocs \cup ShapeDocs \cup SpreadDocs \cup NoMethodDocs

\* The file named on the command line: absent, not well-formed XML, or a
\* document.
Files ==
    { [exists |-> FALSE, wellformed |-> FALSE, root |-> ProjectEl(<<>>)],
      [exists |-> TRUE, wellformed |-> FALSE, root |-> ProjectEl(<<>>)] }
    \cup {[exists |-> TRUE, wellformed |-> TRUE, root |-> d] : d \in Documents}

\* ------------------------------------------------------------------------
\* main (lines 131-160)
\* ------------------------------------------------------------------------

VARIABLES pc, xml_file, data, metrics, results, err, pos, out

vars == <<pc, xml_file, data, metrics, results, err, pos, out>>

Init ==
    /\ pc = "start"
    /\ xml_file \in Files
    /\ data = NullV
    /\ metrics = EmptyMetrics
    /\ results = InitialResults(EmptyMetrics)
    /\ err = "none"
    /\ pos = 1
    /\ out = <<>>

\* Lines 146-151: the file does not exist; the hint is printed, main returns.
MissingFile ==
    /\ pc = "start"
    /\ ~xml_file.exists
    /\ out' = out \o << Line("not_found", "", 0), Line("usage", "", 0),
                        Line("usage", "", 0), Line("usage", "", 0) >>
    /\ pc' = "done"
    /\ UNCHANGED <<xml_file, data, metrics, results, err, pos>>

\* Lines 8-11: the file is read and parsed; malformed markup raises.
LoadXml ==
    /\ pc = "start"
    /\ xml_file.exists
    /\ IF xml_file.wellformed
       THEN /\ data' = XmlToDict(xml_file.root)
            /\ pc' = "walk"
            /\ err' = err
       ELSE /\ data' = data
            /\ pc' = "except"
            /\ err' = "ExpatError"
    /\ UNCHANGED <<xml_file, metrics, results, pos, out>>

\* The walk, going on to the report although it raised.
Walk_ignoreError ==
    /\ pc = "walk"
    /\ LET w == Extraction(data)
       IN /\ metrics' = w.m
          /\ err' = w.err
          /\ pc' = "averages"
    /\ UNCHANGED <<xml_file, data, results, pos, out>>

\* Lines 14-19, 71: the walk fills the sequences or raises.
Walk ==
    /\ pc = "walk"
    /\ LET w == Extraction(data)
       IN /\ metrics' = w.m
          /\ err' = w.err
          /\ pc' = IF w.err = "none" THEN "averages" ELSE "except"
    /\ UNCHANGED <<xml_file, data, results, pos, out>>

\* Lines 74-100: the averages are returned to main, or ZeroDivisionError is
\* raised and main's results are never assigned.
Averages ==
    /\ pc = "averages"
    /\ LET r == ComputeResults(metrics)
       IN /\ results' = IF r.err = "none" THEN r.results ELSE results
          /\ err' = r.err
          /\ pc' = IF r.err = "none" THEN "display" ELSE "except"
    /\ UNCHANGED <<xml_file, data, metrics, pos, out>>

\* Lines 103-119: the averages are printed, and the title of the
\* additional statistics when total_methods > 0.
DisplayAverages ==
    /\ pc = "display"
    /\ IF results.total_methods > 0
       THEN /\ out' = out \o HeaderLines(results)
                          \o << Line("statistics_title", "", 0), Line("rule", "", 0) >>
            /\ pc' = "blocks"
       ELSE /\ out' = out \o HeaderLines(results)
            /\ pc' = "done"
    /\ pos' = 1
    /\ UNCHANGED <<xml_file, data, metrics, results, err>>

\* Lines 121-129: one turn of the loop over metrics.items().
DisplayBlock ==
    /\ pc = "blocks"
    /\ LET name == MetricKeys[pos]
           b == IF metrics[name] # <<>> THEN BlockLines(name, metrics[name])
                ELSE [err |-> "none", lines |-> <<>>]
       IN /\ out' = out \o b.lines
          /\ err' = b.err
          /\ pc' = IF b.err # "none" THEN "except"
                   ELSE IF pos = Len(MetricKeys) THEN "done" ELSE "blocks"
          /\ pos' = IF b.err = "none" /\ pos < Len(MetricKeys) THEN pos + 1 ELSE pos
    /\ UNCHANGED <<xml_file, data, metrics, results>>

\* Lines 157-160: the catch-all handler prints the error and the trace.
HandleException ==
    /\ pc = "except"
    /\ out' = out \o << Line("error", err, 0), Line("traceback", err, 0) >>
    /\ pc' = "done"
    /\ UNCHANGED <<xml_file, data, metrics, results, err, pos>>

Next ==
    \/ MissingFile
    \/ LoadXml
    \/ Walk
    \/ Averages
    \/ DisplayAverages
    \/ DisplayBlock
    \/ HandleException

Spec == Init /\ [][Next]_vars

\* ------------------------------------------------------------------------
\* What the properties speak of
\* ------------------------------------------------------------------------

\* A line of the report is on the output.
InOut(l) == \E i \in 1..Len(out) : out[i] = l

\* The kinds of line display_results prints.
ReportKinds == {"rule", "title", "total", "averages_title", "avg", "statistics_title",
                "label", "min", "max", "median", "stddev", "stddev_na"}

\* The file was loaded and the walk has run.
WalkDone == xml_file.exists /\ xml_file.wellformed /\ pc \notin {"start", "walk"}

\* The exception the walk raised, "none" when it raised none.
WalkErr == IF err \in {"TypeError", "AttributeError", "ValueError"} THEN err ELSE "none"

\* parse_jasome_xml has returned.
Returned == WalkDone /\ pc \in {"display", "blocks", "done"} /\ err = "none"

Recognized(name) == name \in {VG, Ci, Di, TLOC}

KeyOfName(name) == CHOOSE k \in MetricKeySet : k = SeqOfName(name)

\* Some mapping of the tree, at any depth, holds the key.
RECURSIVE HasKeyDeep(_, _)
HasKeyDeep(node, k) ==
    \/ node.t = "map" /\ \E i \in 1..Len(node.kv) :
           node.kv[i][1] = k \/ HasKeyDeep(node.kv[i][2], k)
    \/ node.t = "list" /\ \E i \in 1..Len(node.items) : HasKeyDeep(node.items[i], k)

RECURSIVE SumNat(_, _)
SumNat(f, n) == IF n = 0 THEN 0 ELSE f[n] + SumNat(f, n - 1)

\* The Method elements of a document, at any depth.
RECURSIVE CountMethodEls(_)
CountMethodEls(e) ==
    (IF e.tag = "Method" THEN 1 ELSE 0)
    + SumNat([i \in 1..Len(e.kids) |-> CountMethodEls(e.kids[i])], Len(e.kids))

\* The value of an element's attribute, or a default.
AttrOr(e, name, default) ==
    IF \E i \in 1..Len(e.attrs) : e.attrs[i][1] = name
    THEN e.attrs[CHOOSE i \in 1..Len(e.attrs) : e.attrs[i][1] = name][2]
    ELSE default

\* The Metric elements named `name` under the Metrics of one Method element.
OwnEntries(method, name) ==
    LET ms == SelectSeq(method.kids, LAMBDA k : k.tag = "Metrics")
        Of(m) == SelectSeq(m.kids,
                           LAMBDA k : k.tag = "Metric" /\ AttrOr(k, "name", <<>>) = name)
    IN IF ms = <<>> THEN <<>> ELSE Of(ms[1])

\* The values of the document's Metric elements named `name` that lie under
\* the Metrics of a Method element, at any depth.
RECURSIVE EntryValues(_, _)
EntryValues(e, name) ==
    LET own == IF e.tag = "Method" THEN OwnEntries(e, name) ELSE <<>>
        vals == [i \in 1..Len(own) |-> DigitsValue(AttrOr(own[i], "value", <<"0">>))]
        RECURSIVE Below(_)
        Below(n) == IF n = 0 THEN <<>> ELSE Below(n - 1) \o EntryValues(e.kids[n], name)
    IN vals \o Below(Len(e.kids))

\* Every Method element of the document carries exactly one VG entry.
RECURSIVE EachMethodOneVG(_)
EachMethodOneVG(e) ==
    /\ e.tag = "Method" => Len(OwnEntries(e, VG)) = 1
    /\ \A i \in 1..Len(e.kids) : EachMethodOneVG(e.kids[i])

\* Some Method element lies inside another.
RECURSIVE HasNestedMethod(_)
HasNestedMethod(e) ==
    \/ e.tag = "Method" /\ \E i \in 1..Len(e.kids) : CountMethodEls(e.kids[i]) > 0
    \/ \E i \in 1..Len(e.kids) : HasNestedMethod(e.kids[i])

\* Every Metric element of the document has a name and a value, and the
\* value of a recognized one is a number.
RECURSIVE EntriesWellFormed(_)
EntriesWellFormed(e) ==
    /\ e.tag = "Metric" =>
          /\ AttrOr(e, "name", <<>>) # <<>>
          /\ Recognized(AttrOr(e, "name", <<>>)) => ParseFloat(AttrOr(e, "value", <<>>)).ok
    /\ \A i \in 1..Len(e.kids) : EntriesWellFormed(e.kids[i])

\* A Method or Metric value that is a single mapping, as a one-element list.
WrapAlt(k, v) == IF k \in {"Method", "Metric"} /\ v.t = "map" THEN {ListV(<<v>>)} ELSE {}

\* The trees that differ from `node` at one place, where such a single
\* mapping is wrapped.
RECURSIVE Toggles(_)
Toggles(node) ==
    IF node.t = "map"
    THEN UNION {
           {[node EXCEPT !.kv[i] = <<node.kv[i][1], v>>] :
               v \in WrapAlt(node.kv[i][1], node.kv[i][2]) \cup Toggles(node.kv[i][2])} :
           i \in 1..Len(node.kv)}
    ELSE IF node.t = "list"
    THEN UNION {
           {[node EXCEPT !.items[i] = v] : v \in Toggles(node.items[i])} :
           i \in 1..Len(node.items)}
    ELSE {}

\* The tree with every such single mapping wrapped.
RECURSIVE WrapAll(_)
WrapAll(node) ==
    IF node.t = "map"
    THEN [node EXCEPT !.kv = [i \in 1..Len(node.kv) |->
            LET k == node.kv[i][1]
                v == WrapAll(node.kv[i][2])
            IN <<k, IF k \in {"Method", "Metric"} /\ v.t = "map" THEN ListV(<<v>>) ELSE v>>]]
    ELSE IF node.t = "list"
    THEN [node EXCEPT !.items = [i \in 1..Len(node.items) |-> WrapAll(node.items[i])]]
    ELSE node

\* A metric entry whose name is none of the four recognized codes.
Unrecognized(entry) == entry.t = "map" /\ ~Recognized(GetOr(entry, "@name", <<>>))

ExtraEntry == MapV(<< <<"@name", TextV(XYZ)>>, <<"@value", TextV(NotANumber)>> >>)

\* A Metric value with an unrecognized entry added in front or at the end,
\* and a Metrics mapping without entries given one.
AddAlt(k, v) ==
    IF k = "Metric"
    THEN {ListV(<<ExtraEntry>> \o AsList(v)), ListV(AsList(v) \o <<ExtraEntry>>)}
    ELSE IF k = "Metrics" /\ v.t = "map" /\ ~HasKey(v, "Metric")
    THEN {[v EXCEPT !.kv = Append(@, <<"Metric", ExtraEntry>>)]}
    ELSE {}

\* The trees that differ from `node` at one place, where an unrecognized
\* entry is added.
RECURSIVE Additions(_)
Additions(node) ==
    IF node.t = "map"
    THEN UNION {
           {[node EXCEPT !.kv[i] = <<node.kv[i][1], v>>] :
               v \in AddAlt(node.kv[i][1], node.kv[i][2]) \cup Additions(node.kv[i][2])} :
           i \in 1..Len(node.kv)}
    ELSE IF node.t = "list"
    THEN UNION {
           {[node EXCEPT !.items[i] = v] : v \in Additions(node.items[i])} :
           i \in 1..Len(node.items)}
    ELSE {}

\* The tree with every unrecognized entry removed from every Metric value:
\* what is left is a list (two entries or more), the entry (one) or no
\* Metric key at all (none).
RECURSIVE Strip(_)
RECURSIVE StripPairs(_)
StripPairs(pairs) ==
    IF pairs = <<>> THEN <<>>
    ELSE LET k == Head(pairs)[1]
             v == Head(pairs)[2]
             left == SelectSeq(AsList(v), LAMBDA x : ~Unrecognized(x))
         IN (IF k # "Metric" THEN << <<k, Strip(v)>> >>
             ELSE IF left = <<>> THEN <<>>
             ELSE IF Len(left) = 1 THEN << <<k, left[1]>> >>
             ELSE << <<k, ListV(left)>> >>)
            \o StripPairs(Tail(pairs))
Strip(node) ==
    IF node.t = "map" THEN [node EXCEPT !.kv = StripPairs(node.kv)]
    ELSE IF node.t = "list"
    THEN [node EXCEPT !.items = [i \in 1..Len(node.items) |-> Strip(node.items[i])]]
    ELSE node

\* What parse_jasome_xml makes of a tree: the sequences, and the results or
\* the exception.
Outcome(tree) ==
    LET w == Extraction(tree)
        r == ComputeResults(w.m)
    IN [m |-> w.m,
        err |-> IF w.err # "none" THEN w.err ELSE r.err,
        results |-> IF w.err # "none" THEN InitialResults(EmptyMetrics) ELSE r.results]

\* ------------------------------------------------------------------------
\* The claims
\* ------------------------------------------------------------------------

VGKey == "mccabe_cyclomatic_complexity"

\* C1: whenever the walk has succeeded and the averages were attempted,
\* every metric whose sequence is empty has average 0 and no exception was
\* raised, whatever the other three sequences hold.
C1_EmptyMeanIsZero ==
    (WalkDone /\ WalkErr = "none" /\ pc # "averages") =>
        \A k \in MetricKeySet :
            metrics[k] = <<>> => err = "none" /\ results.avg[k].n = 0

\* C2: a finished run on a document with two methods whose VG values are 2
\* and 4 has printed average VG 3.00, and for VG min 2.00, max 4.00,
\* median 3.00 and standard deviation 1.41.
C2_TwoMethodsReport ==
    (pc = "done" /\ WalkDone /\ WalkErr = "none"
        /\ CountMethodEls(xml_file.root) = 2
        /\ Sorted(EntryValues(xml_file.root, VG)) = <<2, 4>>) =>
        /\ InOut(Line("avg", VGKey, 300))
        /\ InOut(Line("min", VGKey, 200))
        /\ InOut(Line("max", VGKey, 400))
        /\ InOut(Line("median", VGKey, 300))
        /\ InOut(Line("stddev", VGKey, 141))

\* C3: in a finished successful run the report holds the block of a metric
\* exactly when its sequence has a sample, and the average of a metric
\* with samples is their arithmetic mean.
C3_BlockIffSamples ==
    (pc = "done" /\ Returned) =>
        \A k \in MetricKeySet :
            /\ InOut(Line("label", k, 0)) <=> metrics[k] # <<>>
            /\ metrics[k] # <<>> =>
                  results.avg[k].n * Len(metrics[k]) = SumSeq(metrics[k]) * results.avg[k].d

\* C4: a well-formed document whose tree holds no Method key at any depth
\* raises nothing, leaves the four sequences empty, the total 0 and the
\* averages 0, and its report has the total and averages 0.00 and no
\* additional-statistics section.
C4_NoMethodNoStatistics ==
    (xml_file.exists /\ xml_file.wellformed
        /\ ~HasKeyDeep(XmlToDict(xml_file.root), "Method")) =>
        /\ err = "none"
        /\ pc \notin {"except", "blocks"}
        /\ metrics = EmptyMetrics
        /\ results.total_methods = 0
        /\ \A k \in MetricKeySet : results.avg[k].n = 0
        /\ \A i \in 1..Len(out) :
              out[i].k \in {"rule", "title", "total", "averages_title", "avg"}
        /\ pc = "done" =>
              /\ InOut(Line("total", "", 0))
              /\ \A k \in MetricKeySet : InOut(Line("avg", k, 0))

C4_Witness ==
    /\ pc = "done"
    /\ xml_file.exists /\ xml_file.wellformed
    /\ ~HasKeyDeep(data, "Method")
    /\ HasKeyDeep(data, "Metrics")
    /\ InOut(Line("total", "", 0))

\* The run is on a failure path: the file is missing, the markup is
\* malformed, the walk meets a value that is not a number, or an exception
\* was raised.
FailurePath ==
    \/ ~xml_file.exists
    \/ ~xml_file.wellformed
    \/ Extraction(XmlToDict(xml_file.root)).err = "ValueError"
    \/ err # "none"

\* C5: on a failure path no line of the report is ever printed; a finished
\* run on a missing file has printed the usage hint only, any other failed
\* run the error and the trace only.
C5_NoReportOnFailure ==
    (out # <<>> /\ FailurePath) =>
        /\ \A i \in 1..Len(out) : out[i].k \notin ReportKinds
        /\ pc = "done" =>
              IF ~xml_file.exists
              THEN out = << Line("not_found", "", 0), Line("usage", "", 0),
                            Line("usage", "", 0), Line("usage", "", 0) >>
              ELSE /\ err # "none"
                   /\ out = << Line("error", err, 0), Line("traceback", err, 0) >>

C5_Witness ==
    /\ pc = "done"
    /\ err = "ValueError"
    /\ metrics[VGKey] # <<>>
    /\ out = << Line("error", "ValueError", 0), Line("traceback", "ValueError", 0) >>

\* The trees the walk must not tell from the tree of the document: one or
\* all of its single Method and Metric mappings wrapped in a list.
Normalizations(tree) == Toggles(tree) \cup {WrapAll(tree)}

\* C6: the sequences, the total, the averages and the exception of the run
\* are those of every tree that differs from the document's by holding a
\* one-element list where it holds a single Method or Metric mapping.
C6_NormalizationSymmetry ==
    (pc = "done" /\ WalkDone) =>
        \A t \in Normalizations(data) :
            LET o == Outcome(t)
            IN /\ o.m = metrics
               /\ o.err = err
               /\ o.err = "none" => o.results = results

C6_Witness ==
    /\ pc = "done"
    /\ Returned
    /\ Cardinality(Normalizations(data)) >= 3
    /\ metrics["total_lines_of_code"] # <<>>

\* C7: the sequences of the run, and the exception the walk raised if any,
\* are those of the document's tree with every unrecognized metric entry
\* removed and of every tree with one more unrecognized entry, whose value
\* is not a number.
C7_UnrecognizedIgnored ==
    (pc = "done" /\ WalkDone) =>
        \A t \in {Strip(data)} \cup Additions(data) :
            LET w == Extraction(t)
            IN w.m = metrics /\ w.err = WalkErr

C7_Witness ==
    /\ pc = "done"
    /\ Returned
    /\ Strip(data) # data
    /\ Additions(data) # {}
    /\ metrics[VGKey] # <<>>

C9_EachMethodOnce ==
    (WalkDone /\ WalkErr = "none") =>
        /\ \A i \in 1..Len(RecognizedNames) :
              Sorted(metrics[KeyOfName(RecognizedNames[i])])
                  = Sorted(EntryValues(xml_file.root, RecognizedNames[i]))
        /\ EachMethodOneVG(xml_file.root) =>
              /\ Len(metrics[VGKey]) = CountMethodEls(xml_file.root)
              /\ Returned => results.total_methods = CountMethodEls(xml_file.root)

C9_Witness ==
    /\ pc = "done"
    /\ Returned
    /\ HasNestedMethod(xml_file.root)
    /\ EachMethodOneVG(xml_file.root)
    /\ results.total_methods = CountMethodEls(xml_file.root)
    /\ results.total_methods >= 3

\* C10: when every Metric element of the document is well formed, the walk
\* raises nothing whatever the shape of the methods and of their Metrics
\* (a mapping, a text, the None of an empty element), and the sequences
\* hold the values of all the methods that carry metrics.
C10_MethodWithoutMetricsSkipped ==
    (WalkDone /\ EntriesWellFormed(xml_file.root)) =>
        /\ WalkErr = "none"
        /\ \A i \in 1..Len(RecognizedNames) :
              Sorted(metrics[KeyOfName(RecognizedNames[i])])
                  = Sorted(EntryValues(xml_file.root, RecognizedNames[i]))

====
